---- MODULE Spec2Model ----
(***************************************************************************)
(* Model of src/router_manager.py: class Router4GIPReset and main().       *)
(* The program is a sequential script; every HTTP round trip, every sleep  *)
(* and every return is one step.  The outcome of each HTTP call is the     *)
(* environment's choice.                                                   *)
(***************************************************************************)
EXTENDS Integers, Sequences, FiniteSets, TLC

VARIABLES driver, call, pc, old_ip, new_ip, log, rets, printed, crash

vars == <<driver, call, pc, old_ip, new_ip, log, rets, printed, crash>>

(* ---------------------------- bounds ----------------------------------- *)

NumIPs == 2

IPPool == <<"1.2.3.4", "5.6.7.8", "9.10.11.12", "13.14.15.16">>

IPs == {IPPool[i] : i \in 1..NumIPs}

(* ---------------------------- constants -------------------------------- *)

None == "None"

Unset == "unset"

DisconnectWait == 5

ReconnectWait == 10

RestartWait == 60

Connection == "reset_ip_via_connection"

Restart == "reset_ip_via_restart"

Status == "check_connection_status"

Lookup == "get_current_ip"

ResetCalls == {Connection, Restart}

Drivers == {"main", Connection, Restart, Status, Lookup}

(* Outcomes of requests.get('https://api.ipify.org?format=json') followed  *)
(* by response.json()['ip']: the request raises, the body does not parse,  *)
(* or the body carries an address.                                         *)
LookupResponses == {"neterr", "badjson"} \cup IPs

(* Status codes a final response may carry: success, a 3xx that is not     *)
(* followed, a client error, a server error.                               *)
StatusCodes == {200, 304, 404, 500}

(* Outcomes of session.post: a raised RequestException (no response), or a *)
(* response with a status code.                                            *)
PostOutcomes == {<<"neterr", 0>>} \cup {<<"response", s>> : s \in StatusCodes}

(* Outcomes of session.get(status_url) followed by response.json().        *)
StatusResponses == {"neterr", "badjson", "json"}

StatusPayload == [status |-> "connected"]

(* ---------------------------- pure parts ------------------------------- *)

(* str(e) of the exception an outcome raises *)
ExcStr(out) ==
    CASE out = "neterr"     -> "ConnectionError"
      [] out = "badjson"    -> "JSONDecodeError"
      [] OTHER              -> "Exception"

(* get_current_ip: the address, or None on any exception *)
get_current_ip(resp) == IF resp \in IPs THEN resp ELSE None

(* response.raise_for_status(): raises HTTPError for 4xx and 5xx only *)
RaiseForStatus(status) == 400 <= status /\ status < 600

(* _login: post + raise_for_status; False on any exception, so True for    *)
(* every response whose status is outside 400..599                         *)
_login(o) == o[1] = "response" /\ ~RaiseForStatus(o[2])

post_checks_status(o) == o[1] = "neterr" \/ RaiseForStatus(o[2])

(* session.post(url) without raise_for_status raises only on a network     *)
(* failure                                                                 *)
PostRaises(o) == o[1] = "neterr"

(* response.json() of the status request raises on a network failure or an *)
(* unparsable body                                                         *)
StatusRaises(out) == out \in {"neterr", "badjson"}

LoginFailedResult == <<FALSE, [error |-> "Login failed"]>>

ExceptResultSuccess(e) == <<TRUE, [error |-> e]>>

(* except Exception as e: return False, {"error": str(e)} *)
ExceptResult(e) == <<FALSE, [error |-> e]>>

MethodName(c) == IF c = Connection THEN "connection_cycle" ELSE "restart"

CompareResultEqual(c, old, new) ==
    <<old = new, [old_ip |-> old, new_ip |-> new, method |-> MethodName(c)]>>

(* return old_ip != new_ip, {"old_ip": .., "new_ip": .., "method": ..} *)
CompareResult(c, old, new) ==
    <<old # new, [old_ip |-> old, new_ip |-> new, method |-> MethodName(c)]>>

(* dict.get(key, default) *)
Get(d, key, default) == IF key \in DOMAIN d THEN d[key] ELSE default

NextStepSwapped(c, p) ==
    CASE c = Connection /\ p = "old_ip"     -> "login"
      [] c = Connection /\ p = "login"      -> "connect"
      [] c = Connection /\ p = "connect"    -> "sleep10"
      [] c = Connection /\ p = "sleep10"    -> "disconnect"
      [] c = Connection /\ p = "disconnect" -> "sleep5"
      [] c = Connection /\ p = "sleep5"     -> "new_ip"
      [] c = Connection /\ p = "new_ip"     -> "compare"
      [] c = Restart /\ p = "old_ip"        -> "login"
      [] c = Restart /\ p = "login"         -> "restart"
      [] c = Restart /\ p = "restart"       -> "sleep60"
      [] c = Restart /\ p = "sleep60"       -> "new_ip"
      [] c = Restart /\ p = "new_ip"        -> "compare"
      [] c = Status /\ p = "login"          -> "get_status"

(* the statement order inside each method *)
NextStep(c, p) ==
    CASE c = Connection /\ p = "old_ip"     -> "login"
      [] c = Connection /\ p = "login"      -> "disconnect"
      [] c = Connection /\ p = "disconnect" -> "sleep5"
      [] c = Connection /\ p = "sleep5"     -> "connect"
      [] c = Connection /\ p = "connect"    -> "sleep10"
      [] c = Connection /\ p = "sleep10"    -> "new_ip"
      [] c = Connection /\ p = "new_ip"     -> "compare"
      [] c = Restart /\ p = "old_ip"        -> "login"
      [] c = Restart /\ p = "login"         -> "restart"
      [] c = Restart /\ p = "restart"       -> "sleep60"
      [] c = Restart /\ p = "sleep60"       -> "new_ip"
      [] c = Restart /\ p = "new_ip"        -> "compare"
      [] c = Status /\ p = "login"          -> "get_status"

SleepSecs(p) ==
    CASE p = "sleep5"  -> DisconnectWait
      [] p = "sleep10" -> ReconnectWait
      [] p = "sleep60" -> RestartWait

PostEvent(p) ==
    CASE p = "disconnect" -> "post_disconnect"
      [] p = "connect"    -> "post_connect"
      [] p = "restart"    -> "post_restart"

Event(c, ev, out, status, dur) ==
    [call |-> c, ev |-> ev, out |-> out, status |-> status, dur |-> dur]

(* main's local variables success, result: the last returned tuple *)
MainSuccess == rets[Len(rets)].value[1]

MainResult == rets[Len(rets)].value[2]

(* ---------------------------- actions ---------------------------------- *)

Init ==
    /\ driver \in Drivers
    /\ call = "none"
    /\ pc = "start"
    /\ old_ip = Unset
    /\ new_ip = Unset
    /\ log = <<>>
    /\ rets = <<>>
    /\ printed = <<>>
    /\ crash = "none"

(* a method returns value to its caller *)
Return(value) ==
    /\ rets' = Append(rets, [call |-> call, value |-> value])
    /\ call' = "none"
    /\ pc' = IF driver = "main"
             THEN (IF call = Connection THEN "if_not_success" ELSE "report")
             ELSE "done"

(* main: print(...); success, result = router.reset_ip_via_connection() *)
MainStart ==
    /\ driver = "main" /\ call = "none" /\ pc = "start"
    /\ printed' = Append(printed, <<"Attempting IP reset via connection cycling...">>)
    /\ call' = Connection
    /\ pc' = "old_ip"
    /\ UNCHANGED <<driver, old_ip, new_ip, log, rets, crash>>

(* a caller other than main invokes one public method *)
DirectCall ==
    /\ driver # "main" /\ call = "none" /\ pc = "start"
    /\ call' = driver
    /\ pc' = CASE driver \in ResetCalls -> "old_ip"
               [] driver = Status       -> "login"
               [] driver = Lookup       -> "lookup"
    /\ UNCHANGED <<driver, old_ip, new_ip, log, rets, printed, crash>>

(* get_current_ip called on its own *)
StandaloneLookup ==
    /\ call = Lookup /\ pc = "lookup"
    /\ \E resp \in LookupResponses :
          /\ log' = Append(log, Event(call, "get_ip", resp, 0, 0))
          /\ Return(get_current_ip(resp))
    /\ UNCHANGED <<driver, old_ip, new_ip, printed, crash>>

(* old_ip = self.get_current_ip() *)
LookupOld ==
    /\ call \in ResetCalls /\ pc = "old_ip"
    /\ \E resp \in LookupResponses :
          /\ log' = Append(log, Event(call, "get_ip", resp, 0, 0))
          /\ old_ip' = get_current_ip(resp)
    /\ new_ip' = Unset
    /\ pc' = NextStep(call, pc)
    /\ UNCHANGED <<driver, call, rets, printed, crash>>

(* if not self._login(): return ... *)
Login ==
    /\ call \in ResetCalls \cup {Status} /\ pc = "login"
    /\ \E out \in PostOutcomes :
          /\ log' = Append(log, Event(call, "post_login", out[1], out[2], 0))
          /\ IF _login(out)
             THEN /\ pc' = NextStep(call, pc)
                  /\ UNCHANGED <<call, rets>>
             ELSE Return(IF call = Status THEN LoginFailedResult[2]
                                          ELSE LoginFailedResult)
    /\ UNCHANGED <<driver, old_ip, new_ip, printed, crash>>

(* self.session.post(disconnect_url | connect_url | restart_url) *)
DisruptivePost ==
    /\ call \in ResetCalls /\ pc \in {"disconnect", "connect", "restart"}
    /\ \E out \in PostOutcomes :
          /\ log' = Append(log, Event(call, PostEvent(pc), out[1], out[2], 0))
          /\ IF PostRaises(out)
             THEN Return(ExceptResult(ExcStr(out[1])))
             ELSE /\ pc' = NextStep(call, pc)
                  /\ UNCHANGED <<call, rets>>
    /\ UNCHANGED <<driver, old_ip, new_ip, printed, crash>>

(* time.sleep(5) | time.sleep(10) | print(...); time.sleep(60) *)
Sleep ==
    /\ call \in ResetCalls /\ pc \in {"sleep5", "sleep10", "sleep60"}
    /\ log' = Append(log, Event(call, "sleep", "", 0, SleepSecs(pc)))
    /\ printed' = IF pc = "sleep60"
                  THEN Append(printed, <<"Waiting for router restart (60 seconds)...">>)
                  ELSE printed
    /\ pc' = NextStep(call, pc)
    /\ UNCHANGED <<driver, call, old_ip, new_ip, rets, crash>>

(* new_ip = self.get_current_ip() *)
LookupNew ==
    /\ call \in ResetCalls /\ pc = "new_ip"
    /\ \E resp \in LookupResponses :
          /\ log' = Append(log, Event(call, "get_ip", resp, 0, 0))
          /\ new_ip' = get_current_ip(resp)
    /\ pc' = NextStep(call, pc)
    /\ UNCHANGED <<driver, call, old_ip, rets, printed, crash>>

(* return old_ip != new_ip, {...} *)
Compare ==
    /\ call \in ResetCalls /\ pc = "compare"
    /\ Return(CompareResult(call, old_ip, new_ip))
    /\ UNCHANGED <<driver, old_ip, new_ip, log, printed, crash>>

(* response = self.session.get(status_url); return response.json() *)
StatusGet ==
    /\ call = Status /\ pc = "get_status"
    /\ \E out \in StatusResponses :
          /\ log' = Append(log, Event(call, "get_status", out, 0, 0))
          /\ IF StatusRaises(out)
             THEN Return(ExceptResult(ExcStr(out))[2])
             ELSE Return(StatusPayload)
    /\ UNCHANGED <<driver, old_ip, new_ip, printed, crash>>

MainFallbackRetryCycle ==
    /\ driver = "main" /\ call = "none" /\ pc = "if_not_success"
    /\ IF ~MainSuccess
       THEN /\ printed' = Append(printed, <<"Attempting IP reset via router restart...">>)
            /\ call' = IF Len(rets) < 2 THEN Connection ELSE Restart
            /\ pc' = "old_ip"
       ELSE /\ pc' = "report"
            /\ UNCHANGED <<call, printed>>
    /\ UNCHANGED <<driver, old_ip, new_ip, log, rets, crash>>

MainFallbackOnErrorOnly ==
    /\ driver = "main" /\ call = "none" /\ pc = "if_not_success"
    /\ IF "error" \in DOMAIN MainResult
       THEN /\ printed' = Append(printed, <<"Attempting IP reset via router restart...">>)
            /\ call' = Restart
            /\ pc' = "old_ip"
       ELSE /\ pc' = "report"
            /\ UNCHANGED <<call, printed>>
    /\ UNCHANGED <<driver, old_ip, new_ip, log, rets, crash>>

MainFallbackAlways ==
    /\ driver = "main" /\ call = "none" /\ pc = "if_not_success"
    /\ printed' = Append(printed, <<"Attempting IP reset via router restart...">>)
    /\ call' = Restart
    /\ pc' = "old_ip"
    /\ UNCHANGED <<driver, old_ip, new_ip, log, rets, crash>>

(* if not success: print(...); success, result = router.reset_ip_via_restart() *)
MainFallback ==
    /\ driver = "main" /\ call = "none" /\ pc = "if_not_success"
    /\ IF ~MainSuccess
       THEN /\ printed' = Append(printed, <<"Attempting IP reset via router restart...">>)
            /\ call' = Restart
            /\ pc' = "old_ip"
       ELSE /\ pc' = "report"
            /\ UNCHANGED <<call, printed>>
    /\ UNCHANGED <<driver, old_ip, new_ip, log, rets, crash>>

(* if success: print(result['old_ip'] -> result['new_ip'])                 *)
(* else: print(result.get('error', 'Unknown error'))                       *)
MainReport ==
    /\ driver = "main" /\ call = "none" /\ pc = "report"
    /\ IF MainSuccess
       THEN IF {"old_ip", "new_ip"} \subseteq DOMAIN MainResult
            THEN /\ printed' = Append(printed, <<"IP reset successful",
                                       MainResult["old_ip"], MainResult["new_ip"]>>)
                 /\ crash' = crash
            ELSE /\ crash' = "KeyError"
                 /\ printed' = printed
       ELSE /\ printed' = Append(printed, <<"IP reset failed",
                                  Get(MainResult, "error", "Unknown error")>>)
            /\ crash' = crash
    /\ pc' = "done"
    /\ UNCHANGED <<driver, call, old_ip, new_ip, log, rets>>

Next ==
    \/ MainStart
    \/ DirectCall
    \/ StandaloneLookup
    \/ LookupOld
    \/ Login
    \/ DisruptivePost
    \/ Sleep
    \/ LookupNew
    \/ Compare
    \/ StatusGet
    \/ MainFallback
    \/ MainReport

Spec == Init /\ [][Next]_vars

(* Every HTTP call returns or fails and every sleep ends, so the script    *)
(* always takes its next step.                                             *)
FairSpec == Spec /\ WF_vars(Next)

(* ---------------------------- observations ----------------------------- *)

(* the requests and sleeps of one method call, in the order they happened *)
Evs(c) == SelectSeq(log, LAMBDA e : e.call = c)

Lookups(c) == SelectSeq(log, LAMBDA e : e.call = c /\ e.ev = "get_ip")

(* what the k-th IP lookup of call c gave its caller: the address of the   *)
(* response, or None when the request or the parse failed                  *)
Observed(c, k) == IF Lookups(c)[k].out \in IPs THEN Lookups(c)[k].out ELSE None

Count(ev) == Len(SelectSeq(log, LAMBDA e : e.ev = ev))

Has(c, ev) == \E i \in 1..Len(log) : log[i].call = c /\ log[i].ev = ev

HasOut(c, ev, out) ==
    \E i \in 1..Len(log) : log[i].call = c /\ log[i].ev = ev /\ log[i].out = out

Disruptive == {"post_disconnect", "post_connect", "post_restart"}

Returned(c) == \E i \in 1..Len(rets) : rets[i].call = c

RetVal(c) == rets[CHOOSE i \in 1..Len(rets) : rets[i].call = c].value

LastPrinted == printed[Len(printed)]

(* ---------------------------- C1 --------------------------------------- *)

(* C1: every result of reset_ip_via_connection / reset_ip_via_restart that *)
(* was decided after two IP lookups has success true exactly when both     *)
(* lookups gave a non-None value and the two values differ.                *)
C1_SuccessIffBothLookupsDiffer ==
    \A c \in ResetCalls :
        (Returned(c) /\ Len(Lookups(c)) = 2) =>
            (RetVal(c)[1] <=> ( /\ Observed(c, 1) # None
                                /\ Observed(c, 2) # None
                                /\ Observed(c, 1) # Observed(c, 2) ))

(* ---------------------------- C2 --------------------------------------- *)

(* C2: when the lookup before and the lookup after the reset attempt gave  *)
(* the same value (two None values included), the returned success is      *)
(* false.                                                                  *)
C2_SameIpNeverSuccess ==
    \A c \in ResetCalls :
        (Returned(c) /\ Len(Lookups(c)) = 2 /\ Observed(c, 1) = Observed(c, 2))
            => RetVal(c)[1] = FALSE

C2_Witness ==
    /\ driver = "main" /\ pc = "done"
    /\ Returned(Connection) /\ Len(Lookups(Connection)) = 2
    /\ Observed(Connection, 1) = None /\ Observed(Connection, 2) = None
    /\ Returned(Restart) /\ Len(Lookups(Restart)) = 2
    /\ Observed(Restart, 1) \in IPs /\ Observed(Restart, 2) = Observed(Restart, 1)

(* ---------------------------- C3 --------------------------------------- *)

(* the login request of an event raised or was answered with 4xx / 5xx *)
LoginRefused(e) ==
    e.ev = "post_login" /\ (e.out = "neterr" \/ e.status \in 400..599)

(* the login request of an event was not answered with a 2xx status *)
LoginNot2xx(e) ==
    e.ev = "post_login" /\ (e.out = "neterr" \/ e.status \notin 200..299)

ShortCircuited(c) ==
    /\ Returned(c)
    /\ RetVal(c) = <<FALSE, [error |-> "Login failed"]>>
    /\ \A ev \in Disruptive : ~Has(c, ev)
    /\ Len(Lookups(c)) = 1

(* C3: a login answered with any non-2xx status, or failing on   *)
(* the network, makes the call return the "Login failed" result with no    *)
(* disruptive request and no second IP lookup, and a disruptive request    *)
(* only follows a login answered 2xx in the same call.                     *)
C3_Non2xxLoginShortCircuits ==
    \A c \in ResetCalls :
        /\ (\E i \in 1..Len(log) : log[i].call = c /\ LoginNot2xx(log[i]))
              => ShortCircuited(c)
        /\ \A i \in 1..Len(log) :
              (log[i].call = c /\ log[i].ev \in Disruptive) =>
                 \E j \in 1..(i - 1) :
                    /\ log[j].call = c /\ log[j].ev = "post_login"
                    /\ ~LoginNot2xx(log[j])

(* ---------------------------- C4 --------------------------------------- *)

(* C4: in a run of main the connection cycle is attempted first; when it   *)
(* returns success = false the restart attempt is made exactly once after  *)
(* it, and what main reports is the restart attempt's result.              *)
C4_FallbackToRestart ==
    driver = "main" =>
        /\ Len(log) > 0 => log[1].call = Connection
        /\ Len(rets) > 0 => rets[1].call = Connection
        /\ (\E i \in 1..Len(log) : log[i].call = Restart) =>
              (Len(rets) > 0 /\ rets[1].value[1] = FALSE)
        /\ Len(SelectSeq(rets, LAMBDA r : r.call = Restart)) <= 1
        /\ Len(SelectSeq(rets, LAMBDA r : r.call = Connection)) <= 1
        /\ Len(Lookups(Restart)) <= 2
        /\ (pc = "done" /\ rets[1].value[1] = FALSE) =>
              /\ Len(rets) = 2
              /\ rets[2].call = Restart
              /\ Has(Restart, "get_ip")
              /\ LastPrinted =
                    IF rets[2].value[1]
                    THEN <<"IP reset successful", rets[2].value[2]["old_ip"],
                           rets[2].value[2]["new_ip"]>>
                    ELSE <<"IP reset failed",
                           Get(rets[2].value[2], "error", "Unknown error")>>

C4_Witness ==
    /\ driver = "main" /\ pc = "done"
    /\ Len(Lookups(Connection)) = 2
    /\ Observed(Connection, 1) = "1.2.3.4" /\ Observed(Connection, 2) = "1.2.3.4"
    /\ rets[1].value[1] = FALSE
    /\ Len(rets) = 2 /\ rets[2].call = Restart /\ rets[2].value[1] = TRUE

(* ---------------------------- C5 --------------------------------------- *)

CycleSawChange ==
    /\ driver = "main"
    /\ Len(Lookups(Connection)) = 2
    /\ Observed(Connection, 1) \in IPs
    /\ Observed(Connection, 2) \in IPs
    /\ Observed(Connection, 1) # Observed(Connection, 2)

(* C5: in a run of main, when the connection cycle sees two different      *)
(* non-null IPs the run ends with success = True, method                   *)
(* "connection_cycle" and those two addresses, and the restart attempt is  *)
(* never started (no POST /restart, no second login).                      *)
C5_CycleSuccessEndsRun ==
    CycleSawChange =>
        /\ \A i \in 1..Len(log) : log[i].call = Connection
        /\ Count("post_restart") = 0
        /\ Count("post_login") = 1
        /\ Len(rets) <= 1
        /\ Len(rets) = 1 =>
              rets[1] = [call |-> Connection,
                         value |-> <<TRUE, [old_ip |-> Observed(Connection, 1),
                                            new_ip |-> Observed(Connection, 2),
                                            method |-> "connection_cycle"]>>]
        /\ pc \in {"compare", "if_not_success", "report", "done"}
        /\ pc = "done" =>
              /\ Len(rets) = 1
              /\ crash = "none"
              /\ LastPrinted = <<"IP reset successful", Observed(Connection, 1),
                                 Observed(Connection, 2)>>

C5_Witness ==
    /\ CycleSawChange /\ pc = "done"
    /\ Observed(Connection, 1) = "1.2.3.4" /\ Observed(Connection, 2) = "5.6.7.8"

(* ---------------------------- C6 --------------------------------------- *)

(* a failure the method met: a failed IP lookup, a failed login, a network *)
(* failure of a disruptive request, a failed status request                *)
FailureIn(c) ==
    \E i \in 1..Len(log) :
        /\ log[i].call = c
        /\ \/ log[i].ev = "get_ip" /\ log[i].out \notin IPs
           \/ LoginRefused(log[i])
           \/ log[i].ev \in Disruptive /\ log[i].out = "neterr"
           \/ log[i].ev = "get_status" /\ log[i].out \in {"neterr", "badjson"}

(* C6: no exception leaves a method, and whenever a failure occurred in a  *)
(* reset operation or a status check the returned result has an "error"    *)
(* entry.                                                                  *)
C6_EveryFailureCarriesError ==
    /\ crash = "none"
    /\ \A c \in ResetCalls :
          (Returned(c) /\ FailureIn(c)) => "error" \in DOMAIN RetVal(c)[2]
    /\ (Returned(Status) /\ FailureIn(Status)) => "error" \in DOMAIN RetVal(Status)

(* ---------------------------- C7 --------------------------------------- *)

Terminal ==
    /\ pc = "done" /\ call = "none" /\ crash = "none"
    /\ driver = "main" =>
          (Len(printed) > 0 /\
           LastPrinted[1] \in {"IP reset successful", "IP reset failed"})

(* C7: a run of main sends at most 2 logins, 1 disconnect, 1 connect,      *)
(* 1 restart and 4 IP lookups, attempts the cycle once and the restart at  *)
(* most once, and always reaches a terminal state.                         *)
C7_BoundedAndTerminates ==
    /\ [](driver = "main" =>
            /\ Count("post_login") <= 2
            /\ Count("post_disconnect") <= 1
            /\ Count("post_connect") <= 1
            /\ Count("post_restart") <= 1
            /\ Count("get_ip") <= 4
            /\ Len(Lookups(Connection)) <= 2
            /\ Len(Lookups(Restart)) <= 2
            /\ Len(rets) <= 2)
    /\ <>[]Terminal

C7_Witness ==
    /\ driver = "main" /\ Terminal
    /\ Count("post_login") = 2 /\ Count("get_ip") = 4
    /\ Count("post_disconnect") = 1 /\ Count("post_connect") = 1
    /\ Count("post_restart") = 1

(* ---------------------------- C8 --------------------------------------- *)

CycleOrder ==
    << <<"get_ip", 0>>, <<"post_login", 0>>, <<"post_disconnect", 0>>,
       <<"sleep", 5>>, <<"post_connect", 0>>, <<"sleep", 10>>, <<"get_ip", 0>> >>

RestartOrder ==
    << <<"get_ip", 0>>, <<"post_login", 0>>, <<"post_restart", 0>>,
       <<"sleep", 60>>, <<"get_ip", 0>> >>

IsPrefixOf(es, order) ==
    /\ Len(es) <= Len(order)
    /\ \A i \in 1..Len(es) : <<es[i].ev, es[i].dur>> = order[i]

(* C8: the steps of an attempt happen only in the stated order: old-IP     *)
(* lookup, login, disconnect, 5 s wait, connect, 10 s wait, new-IP lookup, *)
(* comparison (cycle); old-IP lookup, login, restart, 60 s wait, new-IP    *)
(* lookup, comparison (restart).                                           *)
C8_StepsInOrder ==
    /\ IsPrefixOf(Evs(Connection), CycleOrder)
    /\ IsPrefixOf(Evs(Restart), RestartOrder)
    /\ \A c \in ResetCalls :
          (Returned(c) /\ "method" \in DOMAIN RetVal(c)[2]) =>
              Len(Evs(c)) = (IF c = Connection THEN Len(CycleOrder)
                                               ELSE Len(RestartOrder))

C8_Witness ==
    /\ driver = "main" /\ pc = "done"
    /\ Len(Evs(Connection)) = Len(CycleOrder)
    /\ Len(Evs(Restart)) = Len(RestartOrder)

(* ---------------------------- C9 --------------------------------------- *)

(* C9: a result returned with success = True has the keys old_ip, new_ip   *)
(* and method and no error key; a result with an error key is returned     *)
(* with success = False; main's success branch never hits a missing key.   *)
C9_SuccessResultHasIpKeys ==
    /\ \A i \in 1..Len(rets) :
          rets[i].call \in ResetCalls =>
             /\ rets[i].value[1] = TRUE =>
                   DOMAIN rets[i].value[2] = {"old_ip", "new_ip", "method"}
             /\ "error" \in DOMAIN rets[i].value[2] => rets[i].value[1] = FALSE
    /\ crash = "none"

C9_Witness ==
    /\ driver = "main" /\ pc = "done"
    /\ Len(rets) = 2
    /\ "error" \in DOMAIN rets[1].value[2]
    /\ rets[2].value[1] = TRUE
    /\ LastPrinted[1] = "IP reset successful"

(* ---------------------------- C10 -------------------------------------- *)

(* a disruptive request of call c was answered with a non-2xx status *)
DisruptiveNot2xx(c) ==
    \E i \in 1..Len(log) :
        /\ log[i].call = c /\ log[i].ev \in Disruptive
        /\ log[i].out = "response" /\ log[i].status \notin 200..299

(* C10: after a successful login a non-2xx response to disconnect, connect *)
(* or restart does not abort the attempt: all remaining steps run and the  *)
(* result has no error entry and is decided by the IP comparison; only a   *)
(* raised network failure of such a request aborts the attempt, with an    *)
(* error result and with no later request of that attempt.                 *)
C10_DisruptiveStatusIgnored ==
    \A c \in ResetCalls :
        /\ ( /\ Returned(c)
             /\ DisruptiveNot2xx(c)
             /\ \A ev \in Disruptive : ~HasOut(c, ev, "neterr") ) =>
               /\ Len(Evs(c)) = (IF c = Connection THEN Len(CycleOrder)
                                                   ELSE Len(RestartOrder))
               /\ DOMAIN RetVal(c)[2] = {"old_ip", "new_ip", "method"}
               /\ RetVal(c)[1] = (Observed(c, 1) # Observed(c, 2))
        /\ \A i \in 1..Len(Evs(c)) :
               (Evs(c)[i].ev \in Disruptive /\ Evs(c)[i].out = "neterr") =>
                  /\ i = Len(Evs(c))
                  /\ Returned(c)
                  /\ RetVal(c)[1] = FALSE
                  /\ DOMAIN RetVal(c)[2] = {"error"}
        /\ (~Returned(c) /\ DisruptiveNot2xx(c)) => call = c

C10_Witness ==
    /\ driver = "main" /\ pc = "done"
    /\ \E i \in 1..Len(log) :
          log[i].call = Connection /\ log[i].ev = "post_disconnect" /\ log[i].status = 404
    /\ \E i \in 1..Len(log) :
          log[i].call = Connection /\ log[i].ev = "post_connect" /\ log[i].status = 500
    /\ Len(Evs(Connection)) = Len(CycleOrder)
    /\ HasOut(Restart, "post_restart", "neterr")

====
